---------------------------- MODULE Spec2Model ----------------------------
(*************************************************************************)
(* Model of the DRD4 analysis pipeline (src/src/analysis.py) and of the   *)
(* manifest region filter (src/src/helper_functions/                      *)
(* filter_manifest_region.py).                                            *)
(*                                                                        *)
(* Python text is modelled as a sequence of one-character strings, so     *)
(* that prefix tests, str.lstrip and str() conversions are computed       *)
(* character by character, as the interpreter does.                       *)
(*************************************************************************)
EXTENDS Integers, Sequences, FiniteSets, TLC

VARIABLES
    \* ---- filter_probes_by_region called on a manifest table ----
    f_pc,        \* "call" | "returned" | "raised"
    f_calls,     \* how many times the filter has been applied to f_df
    f_in,        \* the table first passed in
    f_prev,      \* the table passed to the latest application
    f_df,        \* the table currently held (input, then the filter's result)
    f_chrom,     \* chrom argument
    f_start,     \* start argument
    f_end,       \* end argument
    f_build,     \* genome_build argument
    \* ---- analysis.py main ----
    pc,          \* position of main
    vcf_exists,  \* os.path.exists(args.vcf)
    grn_exists,  \* os.path.isfile(<idat>_Grn.idat)
    red_exists,  \* os.path.isfile(<idat>_Red.idat)
    region,      \* args.region, as text
    popstats,    \* TRUE iff --popstats was supplied
    exit_code,   \* -1 while running, else the process exit status
    io,          \* sequence of file-system and library calls made so far
    log,         \* sequence of diagnostics written so far
    sites,       \* what the variant reader yielded (<<>> before the call)
    variants,    \* value returned by load_variants
    meth,        \* value returned by load_methylation
    artifacts,   \* output files written so far
    \* ---- gene_region_extraction.py: get_widest_region ----
    w_pc,        \* "call" | "returned" | "idle"
    w_regions,   \* the list passed to get_widest_region
    w_widest     \* the value it returned

fvars == <<f_pc, f_calls, f_in, f_prev, f_df, f_chrom, f_start, f_end, f_build>>
mvars == <<pc, vcf_exists, grn_exists, red_exists, region, popstats, exit_code,
           io, log, sites, variants, meth, artifacts>>
wvars == <<w_pc, w_regions, w_widest>>
vars == <<fvars, mvars, wvars>>

-----------------------------------------------------------------------------
(* Bounds *)

MaxRows == 2

MaxPos == 2

MaxSites == 2

MaxAlts == 2

-----------------------------------------------------------------------------
(* Text helpers *)

Chr == <<"c", "h", "r">>

\* str.startswith(p)
StartsWith(s, p) ==
    /\ Len(s) >= Len(p)
    /\ SubSeq(s, 1, Len(p)) = p

\* The set of characters of a text (str.lstrip treats its argument as a set)
CharsOf(s) == {s[i] : i \in 1..Len(s)}

RECURSIVE LStrip(_, _)
\* str.lstrip(chars): drop leading characters while they belong to chars
LStrip(s, chars) ==
    IF s # <<>> /\ Head(s) \in CharsOf(chars)
    THEN LStrip(Tail(s), chars)
    ELSE s

DigitChar(d) == <<"0", "1", "2", "3", "4", "5", "6", "7", "8", "9">>[d + 1]

RECURSIVE IntToStr(_)
\* str(n) of a non-negative int
IntToStr(n) ==
    IF n < 10 THEN <<DigitChar(n)>>
    ELSE IntToStr(n \div 10) \o <<DigitChar(n % 10)>>

\* A cell of a chromosome column holds text or an int
StrCell(s) == [t |-> "str", s |-> s, n |-> 0]

IntCell(n) == [t |-> "int", s |-> <<>>, n |-> n]

\* Series.astype(str) on one cell
AsTypeStr(c) == IF c.t = "int" THEN IntToStr(c.n) ELSE c.s

\* All sequences over S of length at most n
SeqsUpTo(S, n) == UNION {[1..k -> S] : k \in 0..n}

-----------------------------------------------------------------------------
(* filter_manifest_region.py: filter_probes_by_region *)

\* Chromosome names that carry no "chr" prefix
Tokens == {<<"1">>, <<"c", "1">>}

\* Values the chrom argument is drawn from: each name, bare and "chr"-prefixed
ChromArgs == Tokens \cup {Chr \o t : t \in Tokens}

\* Coordinates: one below the smallest start up to one above the largest end
Positions == 0..(MaxPos + 1)

\* genome_build values: the two supported builds and an unsupported one
Builds == {"hg19", "hg38", "hg18"}

\* Cells of the CHR column: text, or an int when the column was read as numbers
ChrCells == {StrCell(t) : t \in Tokens} \cup {IntCell(1)}

\* Rows of a loaded manifest.  The hg38 columns of a probe are its hg19
\* name with the "chr" prefix and its lifted-over coordinate.
FilterRows ==
    {[IlmnID |-> "cg1", CHR |-> c, MAPINFO |-> p,
      CHR_hg38 |-> StrCell(Chr \o AsTypeStr(c)), Start_hg38 |-> p + 1] :
        c \in ChrCells, p \in Positions}

FilterTables == SeqsUpTo(FilterRows, MaxRows)

\* The value `chrom` is rebound to on the hg19 branch
Hg19Chrom(chrom) == LStrip(chrom, Chr)

\* The value `chrom` is rebound to on the hg38 branch
Hg38Chrom(chrom) == IF StartsWith(chrom, Chr) THEN chrom ELSE Chr \o chrom

\* SelectRegion, had it also rewritten the kept coordinates as 0-based
SelectRegionZeroBased(df, chrom_col, pos_col, chrom, start, end) ==
    LET Keep(r) == /\ AsTypeStr(r[chrom_col]) = chrom
                   /\ r[pos_col] >= start
                   /\ r[pos_col] <= end
        kept == SelectSeq(df, Keep)
    IN  [i \in 1..Len(kept) |-> [kept[i] EXCEPT ![pos_col] = @ - 1]]

\* The boolean-mask selection: rows kept in their original order
SelectRegion(df, chrom_col, pos_col, chrom, start, end) ==
    LET Keep(r) == /\ AsTypeStr(r[chrom_col]) = chrom
                   /\ r[pos_col] >= start
                   /\ r[pos_col] <= end
    IN  SelectSeq(df, Keep)

\* filter_probes_by_region: exc is "" on a normal return
filter_probes_by_region(df, chrom, start, end, genome_build) ==
    IF genome_build = "hg19"
    THEN [exc |-> "",
          df |-> SelectRegion(df, "CHR", "MAPINFO", Hg19Chrom(chrom), start, end)]
    ELSE IF genome_build = "hg38"
    THEN [exc |-> "",
          df |-> SelectRegion(df, "CHR_hg38", "Start_hg38", Hg38Chrom(chrom), start, end)]
    ELSE [exc |-> "ValueError", df |-> df]

\* How often the filter is re-applied to its own result
MaxCalls == 2

\* The value get_widest_region hands back: a region text, or None
NoRegion == [is_none |-> TRUE, value |-> <<>>]

SomeRegion(r) == [is_none |-> FALSE, value |-> r]

\* State of gene_region_extraction.py while it is not exercised
WidestIdle ==
    /\ w_pc = "idle"
    /\ w_regions = <<>>
    /\ w_widest = NoRegion

\* State of analysis.py while only the filter is exercised
MainIdle ==
    /\ pc = "idle"
    /\ vcf_exists = FALSE
    /\ grn_exists = FALSE
    /\ red_exists = FALSE
    /\ region = <<>>
    /\ popstats = FALSE
    /\ exit_code = -1
    /\ io = <<>>
    /\ log = <<>>
    /\ sites = <<>>
    /\ variants = <<>>
    /\ meth = <<>>
    /\ artifacts = {}

InitFilter ==
    /\ f_pc = "call"
    /\ f_calls = 0
    /\ f_in \in FilterTables
    /\ f_prev = f_in
    /\ f_df = f_in
    /\ f_chrom \in ChromArgs
    /\ f_start \in 1..MaxPos
    /\ f_end \in 1..MaxPos
    /\ f_build \in Builds
    /\ MainIdle
    /\ WidestIdle

\* One call filter_probes_by_region(f_df, f_chrom, f_start, f_end, f_build);
\* the caller keeps the returned table for the next call
CallFilter ==
    /\ f_pc \in {"call", "returned"}
    /\ f_calls < MaxCalls
    /\ LET res == filter_probes_by_region(f_df, f_chrom, f_start, f_end, f_build)
       IN  /\ f_pc' = IF res.exc = "" THEN "returned" ELSE "raised"
           /\ f_prev' = f_df
           /\ f_df' = res.df
    /\ f_calls' = f_calls + 1
    /\ UNCHANGED <<f_in, f_chrom, f_start, f_end, f_build>>
    /\ UNCHANGED mvars
    /\ UNCHANGED wvars

NextFilter == CallFilter

SpecFilter == InitFilter /\ [][NextFilter]_vars

-----------------------------------------------------------------------------
(* analysis.py: inputs *)

\* --region values: two well-formed ones (bare and "chr"-prefixed), and one
\* for each way of breaking the grammar CHROM:START-END
RegionArgs ==
    { <<"1", ":", "1", "-", "2">>,
      <<"c", "h", "r", "1", ":", "1", "-", "2">>,
      <<"1", ":", "2", "-", "1">>,
      <<"1", "1", "-", "2">>,
      <<"1", ":", "1", "2">>,
      <<"1", ":", "x", "-", "2">> }

Alleles == {"G", "T"}

\* The absent marker (Python None) of the alt column
None == "None"

\* The alternates a site can declare: distinct alleles, possibly none
AltLists ==
    {a \in SeqsUpTo(Alleles, MaxAlts) : \A i, j \in 1..Len(a) : a[i] = a[j] => i = j}

\* One site as the variant reader yields it, field by requested field
Sites ==
    {[CHROM |-> <<"1">>, POS |-> p, REF |-> "A", ALT |-> a,
      QUAL |-> 30, FILTER_PASS |-> TRUE] :
        p \in 1..MaxPos, a \in AltLists}

\* The reader walks a coordinate-sorted, indexed file: sites come in
\* non-decreasing position
Callsets ==
    {ss \in SeqsUpTo(Sites, MaxSites) :
        \A i, j \in 1..Len(ss) : i < j => ss[i].POS <= ss[j].POS}

\* What allel.read_vcf can do: raise, return None (nothing read), or return
\* a callset of sites in file order
ReaderOutcomes ==
    {[kind |-> "raise", sites |-> <<>>], [kind |-> "none", sites |-> <<>>]}
        \cup {[kind |-> "callset", sites |-> ss] : ss \in Callsets}

Diag(level, msg, path) == [level |-> level, msg |-> msg, path |-> path]

\* The result of one loader call: exit is -1 when the call returns df
Outcome(exit, calls, diags, df) ==
    [exit |-> exit, io |-> calls, log |-> diags, df |-> df]

-----------------------------------------------------------------------------
(* analysis.py: load_variants *)

\* FirstAlt, had it taken alts[-1]
LastAlt(alts) == IF Len(alts) > 0 THEN alts[Len(alts)] ELSE None

\* alts[0] if len(alts) > 0 else None
FirstAlt(alts) == IF Len(alts) > 0 THEN alts[1] ELSE None

\* The DataFrame built from the callset: one row per site, in callset order
VariantFrame(callset) ==
    [i \in 1..Len(callset) |->
        [chrom |-> callset[i].CHROM,
         pos |-> callset[i].POS,
         ref |-> callset[i].REF,
         alt |-> FirstAlt(callset[i].ALT),
         qual |-> callset[i].QUAL,
         filter_pass |-> callset[i].FILTER_PASS]]

\* Lines 56-84 of load_variants: the read_vcf call, the DataFrame, the
\* empty check and the return
ReadVariants(reg, rd) ==
    IF rd.kind = "raise"
    THEN Outcome(1, <<"read_vcf">>,
                 <<Diag("TRACEBACK", "read_vcf raised", "none")>>, <<>>)
    ELSE IF rd.kind = "none"
    THEN Outcome(1, <<"read_vcf">>,
                 <<Diag("TRACEBACK", "TypeError", "none")>>, <<>>)
    ELSE LET df == VariantFrame(rd.sites)
         IN  IF df = <<>>
             THEN Outcome(1, <<"read_vcf">>,
                          <<Diag("EXIT", "No PASS variants found", "vcf")>>, <<>>)
             ELSE Outcome(-1, <<"read_vcf">>,
                          <<Diag("PRINT", "Loaded variants", "vcf")>>, df)

\* An outcome preceded by the calls and diagnostics made before it
After(calls, diags, o) == [o EXCEPT !.io = calls \o @, !.log = diags \o @]

\* load_variants, had it called the reader without testing the path
load_variants_unchecked(exists, reg, rd) == ReadVariants(reg, rd)

\* load_variants(vcf_path, region), given whether vcf_path exists and what
\* the reader does when it is called
load_variants(exists, reg, rd) ==
    IF ~exists
    THEN Outcome(1, <<"exists_vcf">>,
                 <<Diag("EXIT", "VCF not found", "vcf")>>, <<>>)
    ELSE After(<<"exists_vcf">>, <<>>, ReadVariants(reg, rd))

-----------------------------------------------------------------------------
(* analysis.py: load_methylation *)

Probes == {"cg1", "cg2"}

\* The sample's column of the beta matrix, indexed by IlmnID (beta in percent)
BetaRows == {[IlmnID |-> p, beta |-> 42] : p \in Probes}

\* The index of the beta matrix holds each probe once
BetaTables ==
    {t \in SeqsUpTo(BetaRows, MaxRows) :
        \A i, j \in 1..Len(t) : t[i].IlmnID = t[j].IlmnID => i = j}

\* What run_pipeline can do: raise, return a matrix without the sample's
\* column, or return the sample's betas
PipelineOutcomes ==
    {[kind |-> "raise", rows |-> <<>>], [kind |-> "no_sample_column", rows |-> <<>>]}
        \cup {[kind |-> "betas", rows |-> t] : t \in BetaTables}

\* Rows of src/gene_data/drd4_epigenetics_hg19.csv, under their Illumina
\* names: probes on two chromosomes, at the last coordinate a --region value
\* covers and at the first one beyond it
ManifestRows ==
    {[IlmnID |-> p, CHR |-> IntCell(c), MAPINFO |-> m, UCSC_RefGene_Name |-> "DRD4"] :
        p \in Probes, c \in 1..2, m \in MaxPos..(MaxPos + 1)}

\* The manifest lists each probe once
ManifestTables ==
    {t \in SeqsUpTo(ManifestRows, MaxRows) :
        \A i, j \in 1..Len(t) : t[i].IlmnID = t[j].IlmnID => i = j}

\* What pd.read_csv of the region manifest can do: raise, return a table
\* that lacks a required column, or return the table
ManifestOutcomes ==
    {[kind |-> "raise", rows |-> <<>>], [kind |-> "missing_columns", rows |-> <<>>]}
        \cup {[kind |-> "table", rows |-> t] : t \in ManifestTables}

\* beta_series.reset_index().rename(columns={'IlmnID': 'probe_id', sample: 'beta'})
BetaFrame(rows) ==
    [i \in 1..Len(rows) |-> [probe_id |-> rows[i].IlmnID, beta |-> rows[i].beta]]

\* manifest_region.rename(columns=rename_cols)
RenameManifest(rows) ==
    [i \in 1..Len(rows) |->
        [probe_id |-> rows[i].IlmnID, chrom |-> rows[i].CHR,
         pos |-> rows[i].MAPINFO, gene |-> rows[i].UCSC_RefGene_Name]]

\* The rows of the right table that join one left row, in the right table's order
JoinRow(b, right) ==
    LET Match(r) == r.probe_id = b.probe_id
        hits == SelectSeq(right, Match)
    IN  [i \in 1..Len(hits) |->
            [probe_id |-> b.probe_id, beta |-> b.beta, chrom |-> hits[i].chrom,
             pos |-> hits[i].pos, gene |-> hits[i].gene]]

RECURSIVE Merge(_, _)
\* pd.merge(left, right, on='probe_id', how='inner'): left key order is kept
Merge(left, right) ==
    IF left = <<>> THEN <<>>
    ELSE JoinRow(Head(left), right) \o Merge(Tail(left), right)

\* merged[[col for col in keep_columns if col in available]]
KeepColumns(merged) ==
    [i \in 1..Len(merged) |->
        [probe_id |-> merged[i].probe_id, beta |-> merged[i].beta,
         chrom |-> merged[i].chrom, pos |-> merged[i].pos]]

\* IdatSuffixes, had the loop covered the Green file only
IdatSuffixesGrnOnly == <<"grn">>

\* The suffixes the presence loop walks, in order
IdatSuffixes == <<"grn", "red">>

RECURSIVE CheckIdats(_, _)
\* for suffix in (...): log the path, test os.path.isfile, stop at the first
\* missing file.  exists maps a suffix to whether its file is there.
CheckIdats(suffixes, exists) ==
    IF suffixes = <<>>
    THEN [missing |-> "", io |-> <<>>, log |-> <<>>]
    ELSE LET sfx == Head(suffixes)
             here == [missing |-> sfx,
                      io |-> <<"isfile_" \o sfx>>,
                      log |-> <<Diag("DEBUG", "Checking IDAT", sfx)>>]
         IN  IF ~exists[sfx]
             THEN [here EXCEPT !.log = @ \o <<Diag("ERROR", "Missing IDAT file", sfx)>>]
             ELSE LET rest == CheckIdats(Tail(suffixes), exists)
                  IN  [missing |-> rest.missing,
                       io |-> here.io \o rest.io,
                       log |-> here.log \o rest.log]

\* Lines 132-219 of load_methylation: run_pipeline, the sample's column,
\* the region manifest, the inner join and the column selection
JoinBetas(pipe, man) ==
    LET started == <<Diag("INFO", "Running methylprep pipeline", "none")>>
    IN
    IF pipe.kind = "raise"
    THEN Outcome(1, <<"run_pipeline">>,
                 started \o <<Diag("ERROR", "run_pipeline failed", "none")>>, <<>>)
    ELSE IF pipe.kind = "no_sample_column"
    THEN Outcome(1, <<"run_pipeline">>,
                 started \o <<Diag("ERROR", "No beta column for sample", "none")>>, <<>>)
    ELSE IF man.kind = "raise"
    THEN Outcome(1, <<"run_pipeline", "read_csv">>,
                 started \o <<Diag("ERROR", "Failed to read region_manifest_file", "manifest")>>,
                 <<>>)
    ELSE IF man.kind = "missing_columns"
    THEN Outcome(1, <<"run_pipeline", "read_csv">>,
                 started \o <<Diag("ERROR", "Region manifest is missing required columns",
                                   "manifest")>>,
                 <<>>)
    ELSE LET merged == Merge(BetaFrame(pipe.rows), RenameManifest(man.rows))
         IN  Outcome(-1, <<"run_pipeline", "read_csv">>,
                     started \o <<Diag("INFO", "After merging", "none"),
                                  Diag("WARNING", "Some expected columns are missing", "none")>>,
                     KeepColumns(merged))

\* load_methylation(idat_base, region), given which IDAT files exist, what
\* run_pipeline does and what reading the region manifest does
load_methylation(grn, red, reg, pipe, man) ==
    LET chk == CheckIdats(IdatSuffixes, [grn |-> grn, red |-> red])
        begun == <<Diag("INFO", "Starting methylation loading", "none")>> \o chk.log
    IN  IF chk.missing # ""
        THEN Outcome(1, chk.io, begun, <<>>)
        ELSE After(chk.io, begun, JoinBetas(pipe, man))

-----------------------------------------------------------------------------
(* analysis.py: main *)

\* State of the filter while only analysis.py is exercised
FilterIdle ==
    /\ f_pc = "idle"
    /\ f_calls = 0
    /\ f_in = <<>>
    /\ f_prev = <<>>
    /\ f_df = <<>>
    /\ f_chrom = <<>>
    /\ f_start = 0
    /\ f_end = 0
    /\ f_build = "hg19"

\* The process right after parse_args: the arguments and the files they name
Init ==
    /\ pc = "load_variants"
    /\ vcf_exists \in BOOLEAN
    /\ grn_exists \in BOOLEAN
    /\ red_exists \in BOOLEAN
    /\ region \in RegionArgs
    /\ popstats \in BOOLEAN
    /\ exit_code = -1
    /\ io = <<>>
    /\ log = <<>>
    /\ sites = <<>>
    /\ variants = <<>>
    /\ meth = <<>>
    /\ artifacts = {}
    /\ FilterIdle
    /\ WidestIdle

\* variants = load_variants(args.vcf, args.region)
LoadVariants ==
    /\ pc = "load_variants"
    /\ \E rd \in ReaderOutcomes :
        LET o == load_variants(vcf_exists, region, rd)
        IN  /\ exit_code' = o.exit
            /\ io' = io \o o.io
            /\ log' = log \o o.log
            /\ variants' = o.df
            /\ sites' = IF vcf_exists /\ rd.kind = "callset" THEN rd.sites ELSE <<>>
            /\ pc' = IF o.exit = -1 THEN "load_methylation" ELSE "exit"
    /\ UNCHANGED <<vcf_exists, grn_exists, red_exists, region, popstats, meth, artifacts>>
    /\ UNCHANGED fvars
    /\ UNCHANGED wvars

\* An external call that is not made has no outcome to draw
Uncalled == [kind |-> "uncalled", rows |-> <<>>]

\* meth = load_methylation(args.idat, args.region).  The outcome of
\* run_pipeline is drawn when both IDAT files are there to be processed, and
\* that of reading the manifest when the pipeline has returned betas.
LoadMethylation ==
    /\ pc = "load_methylation"
    /\ \E pipe \in IF grn_exists /\ red_exists THEN PipelineOutcomes ELSE {Uncalled} :
       \E man \in IF pipe.kind = "betas" THEN ManifestOutcomes ELSE {Uncalled} :
        LET o == load_methylation(grn_exists, red_exists, region, pipe, man)
        IN  /\ exit_code' = o.exit
            /\ io' = io \o o.io
            /\ log' = log \o o.log
            /\ meth' = o.df
            /\ pc' = IF o.exit = -1 THEN "to_csv" ELSE "exit"
    /\ UNCHANGED <<vcf_exists, grn_exists, red_exists, region, popstats,
                   sites, variants, artifacts>>
    /\ UNCHANGED fvars
    /\ UNCHANGED wvars

\* meth.to_csv("results/methylation_output.csv"): the write succeeds, or
\* raises (no results directory) and the process ends with a traceback
SaveMethylationCsv ==
    /\ pc = "to_csv"
    /\ \E ok \in BOOLEAN :
        IF ok
        THEN /\ artifacts' = artifacts \cup {"results/methylation_output.csv"}
             /\ log' = Append(log, Diag("PRINT", "Saved methylation data", "csv"))
             /\ pc' = "popstats"
             /\ exit_code' = exit_code
        ELSE /\ artifacts' = artifacts
             /\ log' = Append(log, Diag("TRACEBACK", "OSError", "csv"))
             /\ pc' = "exit"
             /\ exit_code' = 1
    /\ io' = Append(io, "to_csv")
    /\ UNCHANGED <<vcf_exists, grn_exists, red_exists, region, popstats,
                   sites, variants, meth>>
    /\ UNCHANGED fvars
    /\ UNCHANGED wvars

\* if args.popstats: fetch_population_stats(...), which always raises
FetchPopulationStats ==
    /\ pc = "popstats"
    /\ popstats
    /\ log' = Append(log, Diag("TRACEBACK", "NotImplementedError", "none"))
    /\ pc' = "exit"
    /\ exit_code' = 1
    /\ UNCHANGED <<vcf_exists, grn_exists, red_exists, region, popstats, io,
                   sites, variants, meth, artifacts>>
    /\ UNCHANGED fvars
    /\ UNCHANGED wvars

\* generate_report(variants, meth, None, args.out): prints, writes nothing
GenerateReport ==
    /\ pc = "popstats"
    /\ ~popstats
    /\ log' = Append(log, Diag("PRINT", "Report would be written", "out"))
    /\ pc' = "done"
    /\ exit_code' = 0
    /\ UNCHANGED <<vcf_exists, grn_exists, red_exists, region, popstats, io,
                   sites, variants, meth, artifacts>>
    /\ UNCHANGED fvars
    /\ UNCHANGED wvars

Next ==
    \/ LoadVariants
    \/ LoadMethylation
    \/ SaveMethylationCsv
    \/ FetchPopulationStats
    \/ GenerateReport

Spec == Init /\ [][Next]_vars

\* load_variants called on its own
NextVariants == LoadVariants

SpecVariants == Init /\ [][NextVariants]_vars

\* load_methylation called on its own
InitMeth ==
    /\ pc = "load_methylation"
    /\ vcf_exists = TRUE
    /\ grn_exists \in BOOLEAN
    /\ red_exists \in BOOLEAN
    /\ region \in RegionArgs
    /\ popstats = FALSE
    /\ exit_code = -1
    /\ io = <<>>
    /\ log = <<>>
    /\ sites = <<>>
    /\ variants = <<>>
    /\ meth = <<>>
    /\ artifacts = {}
    /\ FilterIdle
    /\ WidestIdle

NextMeth == LoadMethylation

SpecMeth == InitMeth /\ [][NextMeth]_vars

-----------------------------------------------------------------------------
(* The region grammar  [ "chr" ] CHROM ":" START "-" END *)

Digits == {DigitChar(d) : d \in 0..9}

CountChar(s, ch) == Cardinality({i \in 1..Len(s) : s[i] = ch})

\* Index of the first ch in s (s holds one)
IndexOf(s, ch) == CHOOSE i \in 1..Len(s) : s[i] = ch /\ \A j \in 1..(i - 1) : s[j] # ch

Before(s, ch) == SubSeq(s, 1, IndexOf(s, ch) - 1)

Behind(s, ch) == SubSeq(s, IndexOf(s, ch) + 1, Len(s))

IsNumeral(s) == s # <<>> /\ \A i \in 1..Len(s) : s[i] \in Digits

DigitVal(c) == CHOOSE d \in 0..9 : DigitChar(d) = c

RECURSIVE StrToInt(_)
\* int(s) of a numeral
StrToInt(s) ==
    IF s = <<>> THEN 0
    ELSE 10 * StrToInt(SubSeq(s, 1, Len(s) - 1)) + DigitVal(s[Len(s)])

\* Exactly one ":", exactly one "-" behind it, integer bounds, start <= end
WellFormedRegion(text) ==
    /\ CountChar(text, ":") = 1
    /\ Before(text, ":") # <<>>
    /\ LET rng == Behind(text, ":")
       IN  /\ CountChar(rng, "-") = 1
           /\ IsNumeral(Before(rng, "-"))
           /\ IsNumeral(Behind(rng, "-"))
           /\ StrToInt(Before(rng, "-")) <= StrToInt(Behind(rng, "-"))

\* One leading literal "chr" removed, nothing else
StripChrPrefix(tok) == IF StartsWith(tok, Chr) THEN SubSeq(tok, 4, Len(tok)) ELSE tok

\* The GenomicRegion of a well-formed text
RegionOf(text) ==
    LET rng == Behind(text, ":")
    IN  [chromosome |-> StripChrPrefix(Before(text, ":")),
         start |-> StrToInt(Before(rng, "-")),
         end |-> StrToInt(Behind(rng, "-"))]

-----------------------------------------------------------------------------
(* gene_region_extraction.py: get_widest_region *)

\* How many regions a list passed to get_widest_region holds at most (the
\* module passes those of its three sources that answered)
MaxRegions == 3

\* f"{chrom}:{start}-{end}", the text every fetch function returns
RegionText(chrom, start, end) ==
    chrom \o <<":">> \o IntToStr(start) \o <<"-">> \o IntToStr(end)

\* The texts the fetch functions can return: start is the smaller coordinate
WidestRegions ==
    {RegionText(<<"1", "1">>, p[1], p[2]) :
        p \in {q \in (1..(MaxPos + 1)) \X (1..(MaxPos + 1)) : q[1] <= q[2]}}

\* chrom, rng = r.split(":"); start, end = map(int, rng.split("-")); end - start
SpanOf(r) ==
    LET rng == Behind(r, ":")
    IN  StrToInt(Behind(rng, "-")) - StrToInt(Before(rng, "-"))

RECURSIVE WidestLoop(_, _, _)
\* The for loop, from the given max_span and widest on
WidestLoop(regions, max_span, widest) ==
    IF regions = <<>> THEN widest
    ELSE LET r == Head(regions)
             span == SpanOf(r)
         IN  IF span > max_span
             THEN WidestLoop(Tail(regions), span, SomeRegion(r))
             ELSE WidestLoop(Tail(regions), max_span, widest)

\* get_widest_region(regions): max_span = 0, widest = None, then the loop
get_widest_region(regions) == WidestLoop(regions, 0, NoRegion)

InitWidest ==
    /\ w_pc = "call"
    /\ w_regions \in SeqsUpTo(WidestRegions, MaxRegions)
    /\ w_widest = NoRegion
    /\ MainIdle
    /\ FilterIdle

\* widest = get_widest_region(all_regions)
CallWidest ==
    /\ w_pc = "call"
    /\ w_widest' = get_widest_region(w_regions)
    /\ w_pc' = "returned"
    /\ UNCHANGED w_regions
    /\ UNCHANGED fvars
    /\ UNCHANGED mvars

NextWidest == CallWidest

SpecWidest == InitWidest /\ [][NextWidest]_vars

-----------------------------------------------------------------------------
(* Properties *)

Reached(call) == \E i \in 1..Len(io) : io[i] = call

\* Paths named by the diagnostics of the given level
PathsAt(level) == {log[i].path : i \in {k \in 1..Len(log) : log[k].level = level}}

\* Paths named anywhere in the output
PathsNamed == {log[i].path : i \in 1..Len(log)}

\* The rows of df on chromosome c with start <= position <= end, in order
ExactRegionRows(df, c, start, end) ==
    LET In(r) == /\ AsTypeStr(r.CHR) = c
                 /\ start <= r.MAPINFO
                 /\ r.MAPINFO <= end
    IN  SelectSeq(df, In)

\* C1: one call of the hg19 filter for a region on chromosome c (a name
\* without "chr" prefix) returns exactly the rows of its input whose
\* chromosome is c, as text, and whose position lies in [start, end], in
\* their original order.
C1_FilterExact ==
    (f_pc = "returned" /\ f_calls = 1 /\ f_build = "hg19" /\ f_chrom \in Tokens)
        => f_df = ExactRegionRows(f_in, f_chrom, f_start, f_end)

\* C2: every row load_methylation returns lies inside the requested region:
\* its chrom is the region's chromosome and start <= pos <= end.
C2_MethInsideRegion ==
    (pc = "to_csv" /\ WellFormedRegion(region))
        => \A i \in 1..Len(meth) :
              /\ AsTypeStr(meth[i].chrom) = RegionOf(region).chromosome
              /\ RegionOf(region).start <= meth[i].pos
              /\ meth[i].pos <= RegionOf(region).end

\* C3: neither loader returns an empty table to main: once load_variants
\* has returned, variants is not empty, and once load_methylation has
\* returned, meth is not empty.
C3_EmptyIsError ==
    /\ pc \in {"load_methylation", "to_csv", "popstats", "done"} => variants # <<>>
    /\ pc \in {"to_csv", "popstats", "done"} => meth # <<>>

\* C4: for a chromosome name t without "chr" prefix, the hg19 filter called
\* with t or with "chr" + t compares rows against exactly t: chrom is
\* normalized to t and every returned row is on chromosome t.
C4_StripOnePrefix ==
    \A t \in Tokens :
        (f_pc = "returned" /\ f_build = "hg19" /\ f_chrom \in {t, Chr \o t})
            => /\ Hg19Chrom(f_chrom) = t
               /\ \A i \in 1..Len(f_df) : AsTypeStr(f_df[i].CHR) = t

\* load_methylation has ended and an IDAT file was missing
IdatMissing == pc # "load_methylation" /\ (~grn_exists \/ ~red_exists)

\* C5, as stated: when an IDAT file is missing, load_methylation exits
\* non-zero before run_pipeline and its output names both the Green and the
\* Red path.
C5_NamesBothPaths ==
    IdatMissing
        => /\ exit_code = 1
           /\ ~Reached("run_pipeline")
           /\ {"grn", "red"} \subseteq PathsNamed

\* C5, amended: when an IDAT file is missing, load_methylation exits
\* non-zero before run_pipeline, returns nothing, and its one error
\* diagnostic names the first missing path in the order Green, Red.
C5_NamesMissingPath ==
    IdatMissing
        => /\ exit_code = 1
           /\ pc = "exit"
           /\ meth = <<>>
           /\ ~Reached("run_pipeline")
           /\ PathsAt("ERROR") = {IF ~grn_exists THEN "grn" ELSE "red"}

\* The Red file alone is missing and load_methylation has ended
C5_Witness == pc = "exit" /\ grn_exists /\ ~red_exists /\ Reached("isfile_red")

\* C6: a run of main with a malformed --region never succeeds and makes no
\* file-existence check, no variant-reader call and no pipeline call.
C6_MalformedBeforeIO ==
    ~WellFormedRegion(region) => (io = <<>> /\ pc # "done")

\* C7: load_variants on a nonexistent path, whatever the region text, exits
\* non-zero with a diagnostic naming the path, without calling the variant
\* reader and without returning rows.
C7_MissingVcfFirst ==
    (pc # "load_variants" /\ ~vcf_exists)
        => /\ exit_code = 1
           /\ pc = "exit"
           /\ PathsAt("EXIT") = {"vcf"}
           /\ ~Reached("read_vcf")
           /\ variants = <<>>
           /\ sites = <<>>

\* load_variants has ended on a nonexistent path and a malformed region
C7_Witness ==
    pc = "exit" /\ ~vcf_exists /\ ~WellFormedRegion(region) /\ Reached("exists_vcf")

\* C8: a run of main that fails at any stage terminates having written no
\* output artifact.
C8_NoPartialOutput ==
    (pc = "exit" /\ exit_code # 0) => artifacts = {}

\* C9: filtering an already filtered table by the same region returns it
\* unchanged.
C9_Idempotent ==
    (f_pc = "returned" /\ f_calls >= 2) => f_df = f_prev

\* The filter has run twice on a table it first shortened to a non-empty one
C9_Witness ==
    f_pc = "returned" /\ f_calls = 2 /\ f_df # <<>> /\ f_prev # f_in

\* C10: load_variants returns one row per site the reader yielded, in the
\* reader's order, with alt the site's first alternate, or None when the
\* site declares no alternate.
C10_OneRowPerSite ==
    pc = "load_methylation"
        => /\ Len(variants) = Len(sites)
           /\ \A i \in 1..Len(sites) :
                 /\ variants[i].pos = sites[i].POS
                 /\ variants[i].ref = sites[i].REF
                 /\ variants[i].alt =
                        IF sites[i].ALT = <<>> THEN None ELSE Head(sites[i].ALT)

\* load_variants has returned rows for a site without alternates and for a
\* multi-allelic site
C10_Witness ==
    /\ pc = "load_methylation"
    /\ \E i, j \in 1..Len(sites) : Len(sites[i].ALT) = 0 /\ Len(sites[j].ALT) >= 2

\* The largest end - start over the regions of a non-empty list
MaxSpan(regions) ==
    CHOOSE m \in {SpanOf(regions[i]) : i \in 1..Len(regions)} :
        \A i \in 1..Len(regions) : SpanOf(regions[i]) <= m

\* Index of the first region of the list whose span is the largest
FirstWidest(regions) ==
    CHOOSE i \in 1..Len(regions) :
        /\ SpanOf(regions[i]) = MaxSpan(regions)
        /\ \A j \in 1..(i - 1) : SpanOf(regions[j]) < MaxSpan(regions)

\* C11: for a non-empty list of well-formed regions, get_widest_region
\* returns a region, never None, and it is the first element of the list
\* whose span end - start is the largest of the list.
C11_WidestFirstMax ==
    (w_pc = "returned" /\ w_regions # <<>>)
        => /\ ~w_widest.is_none
           /\ w_widest.value = w_regions[FirstWidest(w_regions)]

=============================================================================
